---- MODULE Spec2Model ----
(***************************************************************************)
(* Model of the web-RAG orchestrator of k8s-agents-service                 *)
(* (src/src/agents/web_rag_agent.py) and of the retrieval helpers it uses  *)
(* (src/src/agents/tools.py).                                              *)
(*                                                                         *)
(* One conversation thread is one LangGraph thread: its persisted state is *)
(* state[t], a mapping that holds only the keys written so far             *)
(* (WebRagState is a TypedDict with total=False, so every read goes        *)
(* through state.get(key, default)).  A turn appends the user's message    *)
(* and runs the compiled graph one node per step; pc[t] is the node to run *)
(* next.  Capability calls (completion model, web search, vector store)    *)
(* are inputs drawn with \E from the outcomes they can have.               *)
(*                                                                         *)
(* web_vector_search is declared `async def` (tools.py:190) and both call  *)
(* sites in web_rag_agent.py (lines 223 and 376) call it without `await`.  *)
(* The call expression therefore evaluates to a coroutine object: the      *)
(* function body never runs, no RuntimeError is raised by the call, and    *)
(* the value is neither a string nor falsy.  The model keeps this:         *)
(* web_vector_search_call gives the value bound at the call site and the   *)
(* nodes compute with it exactly as the Python does.                       *)
(***************************************************************************)
EXTENDS Naturals, Sequences, FiniteSets, TLC

VARIABLES state, pc, turn, store, turns, asst, vs, call, app

vars == <<state, pc, turn, store, turns, asst, vs, call, app>>

\* the variables of the web-RAG orchestrator and of the tool-calling agents
webVars == <<state, pc, turn, store, turns>>
asstVars == <<asst>>
\* the vector store as the retrieval tools see it, and their last call
gwVars == <<vs, call>>
\* the last application of one of the text functions: its input and result
fnVars == <<app>>

(* ------------------------------ bounds --------------------------------- *)

\* turns started over all threads together
MaxTurns == 2

\* thread ids of the conversations (one is a prefix of the other)
Threads == {"t1", "t11"}
\* contents of the user's messages
Questions == {"qa", "qb"}
\* queries the structured model call returns
ModelQueries == {"kw"}
\* lengths of a formatted retrieval context, around the heuristic's limit
ContextLens == {0, 100, 101}

(* --------------------------- program constants ------------------------- *)

\* the fallback heuristic's limit on the trimmed context length
HeuristicMinLen == 100
\* max_results of the web search
MaxSearchResults == 10
\* k of projects_search and resume_search
RetrievalK == 5

Nodes ==
  { "check_first_run_search_need", "generate_search_query", "check_relevance",
    "web_search_and_store", "rag_response" }

END == "__end__"

(* ------------------------------ messages ------------------------------- *)

\* id 0 stands for a message that has no id yet
HumanMessage(c) == [type |-> "human", content |-> c, id |-> 0]

AIMessage(c) == [type |-> "ai", content |-> c, id |-> 0]

SystemMessage(c) == [type |-> "system", content |-> c, id |-> 0]

\* a reducer that appends whatever a node returns
AddMessagesAppending(left, right) ==
  left \o [i \in DOMAIN right |->
             IF right[i].id = 0 THEN [right[i] EXCEPT !.id = Len(left) + i] ELSE right[i]]

\* The reducer of MessagesState: a message whose id is already in the list
\* replaces that entry, any other message is appended (and given an id).
RECURSIVE add_messages(_, _)
add_messages(left, right) ==
  IF right = <<>> THEN left
  ELSE LET m == Head(right)
           hit == {i \in DOMAIN left : m.id # 0 /\ left[i].id = m.id}
       IN IF hit # {}
          THEN add_messages([i \in DOMAIN left |-> IF i \in hit THEN m ELSE left[i]],
                            Tail(right))
          ELSE add_messages(
                 Append(left, IF m.id = 0 THEN [m EXCEPT !.id = Len(left) + 1] ELSE m),
                 Tail(right))

(* ------------------------------ state ---------------------------------- *)

\* state.get(key, default)
Get(st, key, default) == IF key \in DOMAIN st THEN st[key] ELSE default

\* A node's return value merged into the thread state: messages through the
\* reducer, every other key overwritten.
ApplyUpdate(st, u) ==
  [k \in (DOMAIN st) \cup (DOMAIN u) |->
      IF k \notin DOMAIN u THEN st[k]
      ELSE IF k = "messages" THEN add_messages(Get(st, "messages", <<>>), u[k])
      ELSE u[k]]

\* thread_id is always supplied by the caller of a checkpointed graph
Config(t) == [configurable |-> [thread_id |-> t]]

\* a lookup of thread_id in the wrong mapping always falls back to the default
CollectionNameIgnoringThread(config) ==
  LET thread_id == IF "thread_id" \in DOMAIN config
                   THEN config.thread_id
                   ELSE "default"
  IN "web_search_" \o thread_id

get_collection_name_from_thread(config) ==
  LET thread_id == IF "thread_id" \in DOMAIN config.configurable
                   THEN config.configurable.thread_id
                   ELSE "default"
  IN "web_search_" \o thread_id

CollectionNames == {get_collection_name_from_thread(Config(t)) : t \in Threads}

\* the message the nodes call the user's latest message
LastMessage(st) == st.messages[Len(st.messages)]

UserQueryOfLast(st) ==
  IF LastMessage(st).type = "human" THEN LastMessage(st).content
  ELSE "latest information"

(* --------------------------- capabilities ------------------------------ *)

\* what a node did besides returning an update
NoEffects ==
  [ web |-> 0, write |-> 0, read |-> 0, model |-> 0, query |-> 0,
    prompt |-> "none", acquire |-> "none", names |-> {}, chunks |-> 0,
    probe |-> "none", qstatus |-> "none", sent |-> << >>, searched |-> "none" ]

Returned(u, fx) == [raised |-> FALSE, update |-> u, fx |-> fx]

Raised(fx) == [raised |-> TRUE, update |-> << >>, fx |-> fx]

\* the value of an un-awaited call of an async function
Coroutine == [kind |-> "coroutine", len |-> 0]

Str(n) == [kind |-> "str", len |-> n]

RuntimeErrorRaised == [kind |-> "RuntimeError", len |-> 0]

\* The body of web_vector_search, were it awaited: the formatted context of
\* the documents found, or RuntimeError for any failure inside.
web_vector_search(st, collection_name) ==
  {RuntimeErrorRaised} \cup
  (IF st[collection_name].exists /\ st[collection_name].docs > 0
   THEN {Str(n) : n \in ContextLens}
   ELSE {Str(0)})

\* The awaited call, as a bug-free call site would make it.
AwaitedCall(st, collection_name) == web_vector_search(st, collection_name)

\* The call as web_rag_agent.py writes it, `web_vector_search(...)` with no
\* await: a coroutine object, whatever the store holds.
web_vector_search_call(st, collection_name) == {Coroutine}

\* bool(x) of a retrieval value: a coroutine object is truthy, a string is
\* truthy when it is not empty
Truthy(ctx) == ctx.kind = "coroutine" \/ (ctx.kind = "str" /\ ctx.len > 0)

\* structured and plain completion calls
FirstRunJudgeOutcomes == {"needs_web_search", "no_web_search", "error"}

RelevanceJudgeOutcomes == {"needs_search", "no_search", "error"}

QueryModelOutcomes ==
  {[ok |-> TRUE, query |-> q] : q \in ModelQueries} \cup {[ok |-> FALSE, query |-> ""]}

AnswerModelOutcomes == {"ok", "error"}

\* perform_web_search(query, max_results=10): a list of results (none, or
\* as many as asked for), or ValueError / RuntimeError
SearchOutcomes ==
  {[ok |-> TRUE, results |-> n, error |-> ""] : n \in {0, MaxSearchResults}}
  \cup {[ok |-> FALSE, results |-> 0, error |-> "web search failed"]}

\* store_search_results_in_vector_db(search_content, collection_name): the
\* number of chunks stored, or ValueError / RuntimeError
StorageOutcomes ==
  { [ok |-> TRUE, error |-> ""],
    [ok |-> FALSE, error |-> "vector storage failed"] }

(* ------------------------------- nodes --------------------------------- *)

\* a fallback that forgets the user's message and searches the default text
GenerateSearchQueryDefaultFallback(st, config, out) ==
  LET user_query == "latest information"
      fx == [NoEffects EXCEPT !.model = 1, !.query = 1]
  IN IF out.ok
     THEN Returned([optimized_query |-> out.query], [fx EXCEPT !.qstatus = "ok"])
     ELSE Returned(
            [ optimized_query |-> user_query,
              messages |-> << AIMessage("Query optimization failed, using original query: '"
                                         \o user_query \o "'") >> ],
            [fx EXCEPT !.qstatus = "failed"])

\* a node whose fallback reports the failure and writes no query
GenerateSearchQueryKeepingOldQuery(st, config, out) ==
  LET user_query == UserQueryOfLast(st)
      fx == [NoEffects EXCEPT !.model = 1, !.query = 1]
  IN IF out.ok
     THEN Returned([optimized_query |-> out.query], [fx EXCEPT !.qstatus = "ok"])
     ELSE Returned(
            [ messages |-> << AIMessage("Query optimization failed, using original query: '"
                                         \o user_query \o "'") >> ],
            [fx EXCEPT !.qstatus = "failed"])

generate_search_query_node(st, config, out) ==
  LET user_query == UserQueryOfLast(st)
      fx == [NoEffects EXCEPT !.model = 1, !.query = 1]
  IN IF out.ok
     THEN Returned([optimized_query |-> out.query], [fx EXCEPT !.qstatus = "ok"])
     ELSE Returned(
            [ optimized_query |-> user_query,
              messages |-> << AIMessage("Query optimization failed, using original query: '"
                                         \o user_query \o "'") >> ],
            [fx EXCEPT !.qstatus = "failed"])

\* a node that marks the data as available before the storage has succeeded
WebSearchAndStoreMarkingEarly(st, config, search, storage) ==
  LET collection_name == get_collection_name_from_thread(config)
      fx == [NoEffects EXCEPT !.web = 1, !.names = {collection_name}]
  IN IF ~search.ok
     THEN Returned([messages |-> <<AIMessage(search.error)>>],
                   [fx EXCEPT !.acquire = "search_failed"])
     ELSE IF ~storage.ok
     THEN Returned([messages |-> <<AIMessage(storage.error)>>, has_search_data |-> TRUE],
                   [fx EXCEPT !.acquire = "storage_failed"])
     ELSE Returned(
            [is_search_relevant |-> TRUE, is_first_run |-> FALSE, has_search_data |-> TRUE],
            [fx EXCEPT !.acquire = "ok", !.write = 1, !.chunks = search.results])

\* a node that stores the results but leaves the first-run mark in place
WebSearchAndStoreKeepingFirstRun(st, config, search, storage) ==
  LET collection_name == get_collection_name_from_thread(config)
      fx == [NoEffects EXCEPT !.web = 1, !.names = {collection_name}]
  IN IF ~search.ok
     THEN Returned([messages |-> <<AIMessage(search.error)>>],
                   [fx EXCEPT !.acquire = "search_failed"])
     ELSE IF ~storage.ok
     THEN Returned([messages |-> <<AIMessage(storage.error)>>],
                   [fx EXCEPT !.acquire = "storage_failed"])
     ELSE Returned(
            [is_search_relevant |-> TRUE, has_search_data |-> TRUE],
            [fx EXCEPT !.acquire = "ok", !.write = 1, !.chunks = search.results])

\* a node that answers a failed search with a second search
WebSearchAndStoreRetrying(st, config, search, storage) ==
  LET collection_name == get_collection_name_from_thread(config)
      fx == [NoEffects EXCEPT !.web = 1, !.names = {collection_name}]
  IN IF ~search.ok
     THEN Returned([messages |-> <<AIMessage(search.error), AIMessage("retrying")>>,
                    is_search_relevant |-> FALSE],
                   [fx EXCEPT !.acquire = "search_failed", !.web = 2])
     ELSE IF ~storage.ok
     THEN Returned([messages |-> <<AIMessage(storage.error)>>],
                   [fx EXCEPT !.acquire = "storage_failed"])
     ELSE Returned(
            [is_search_relevant |-> TRUE, is_first_run |-> FALSE, has_search_data |-> TRUE],
            [fx EXCEPT !.acquire = "ok", !.write = 1, !.chunks = search.results])

web_search_and_store_node(st, config, search, storage) ==
  LET optimized_query == Get(st, "optimized_query", "latest information")
      collection_name == get_collection_name_from_thread(config)
      fx == [NoEffects EXCEPT !.web = 1, !.names = {collection_name},
                              !.searched = optimized_query]
  IN IF ~search.ok
     THEN Returned([messages |-> <<AIMessage(search.error)>>],
                   [fx EXCEPT !.acquire = "search_failed"])
     ELSE IF ~storage.ok
     THEN Returned([messages |-> <<AIMessage(storage.error)>>],
                   [fx EXCEPT !.acquire = "storage_failed"])
     ELSE Returned(
            [is_search_relevant |-> TRUE, is_first_run |-> FALSE, has_search_data |-> TRUE],
            [fx EXCEPT !.acquire = "ok", !.write = 1, !.chunks = search.results])

\* a response node that always answers with the general-knowledge instruction
\* and puts it after the conversation
RagResponseGeneralPromptLast(st, config, context, answer) ==
  LET messages == st.messages \o << SystemMessage("general") >>
      fx == [NoEffects EXCEPT !.prompt = "general", !.model = 1, !.sent = messages]
  IN IF answer = "ok"
     THEN Returned([messages |-> <<AIMessage("answer from general prompt")>>], fx)
     ELSE Raised(fx)

rag_response_node(st, config, context, answer) ==
  LET has_search_data == Get(st, "has_search_data", FALSE)
      collection_name == get_collection_name_from_thread(config)
      fx0 == IF has_search_data
             THEN [NoEffects EXCEPT !.names = {collection_name},
                                    !.read = IF context.kind = "coroutine" THEN 0 ELSE 1]
             ELSE NoEffects
      prompt == IF has_search_data THEN "web" ELSE "general"
      messages == << SystemMessage(prompt) >> \o st.messages
      fx == [fx0 EXCEPT !.prompt = prompt, !.model = 1, !.sent = messages]
  IN IF has_search_data /\ context.kind = "RuntimeError"
     THEN Returned([messages |-> <<AIMessage("Error performing web vector search")>>], fx0)
     ELSE IF answer = "ok"
     THEN Returned([messages |-> <<AIMessage("answer from " \o prompt \o " prompt")>>], fx)
     ELSE Raised(fx)

\* a first-run check that marks the first run as over as soon as it has judged
FirstRunCheckClearingFlag(st, config, decision) ==
  IF ~Get(st, "is_first_run", TRUE)
  THEN Returned(st, NoEffects)
  ELSE LET fx == [NoEffects EXCEPT !.model = 1]
       IN IF decision = "error"
          THEN Returned([is_search_relevant |-> FALSE, is_first_run |-> FALSE], fx)
          ELSE Returned([is_search_relevant |-> ~(decision = "needs_web_search"),
                         is_first_run |-> FALSE], fx)

\* a first-run check whose fallback assumes that no search is needed
FirstRunCheckOptimisticFallback(st, config, decision) ==
  IF ~Get(st, "is_first_run", TRUE)
  THEN Returned(st, NoEffects)
  ELSE LET fx == [NoEffects EXCEPT !.model = 1]
       IN IF decision = "error"
          THEN Returned([is_search_relevant |-> TRUE], fx)
          ELSE Returned([is_search_relevant |-> ~(decision = "needs_web_search")], fx)

check_first_run_search_need_node(st, config, decision) ==
  IF ~Get(st, "is_first_run", TRUE)
  THEN Returned(st, NoEffects)
  ELSE LET fx == [NoEffects EXCEPT !.model = 1]
       IN IF decision = "error"
          THEN Returned([is_search_relevant |-> FALSE], fx)
          ELSE Returned([is_search_relevant |-> ~(decision = "needs_web_search")], fx)

check_relevance_node(st, config, existing_context, decision) ==
  LET optimized_query == Get(st, "optimized_query", "")
      collection_name == get_collection_name_from_thread(config)
      fx0 == [NoEffects EXCEPT !.names = {collection_name},
                               !.read = IF existing_context.kind = "coroutine" THEN 0 ELSE 1,
                               !.searched = optimized_query]
      fx == [fx0 EXCEPT !.model = 1]
  IN CASE existing_context.kind = "RuntimeError" ->
            Returned(
              [ is_search_relevant |-> FALSE,
                messages |-> << AIMessage("Vector database not found for query: '"
                                           \o optimized_query
                                           \o "'. Will perform web search.") >> ],
              fx0)
       [] existing_context.kind = "coroutine" ->
            \* truthy, so .strip() is evaluated: AttributeError, caught by
            \* `except Exception`, whose handler evaluates .strip() again
            Raised(fx0)
       [] existing_context.kind = "str" /\ decision # "error" ->
            Returned(
              [ is_search_relevant |-> ~(decision = "needs_search"),
                has_search_data |-> ~(decision = "needs_search") ],
              fx)
       [] OTHER ->
            LET context_exists == Truthy(existing_context)
                                  /\ existing_context.len > HeuristicMinLen
            IN Returned(
                 [ is_search_relevant |-> context_exists,
                   has_search_data |-> context_exists,
                   messages |-> << AIMessage(
                     "AI relevance assessment failed, using fallback decision: "
                     \o (IF context_exists THEN "Using existing context"
                         ELSE "Will search web")) >> ],
                 fx)

(* ------------------------------ routing -------------------------------- *)

\* a router that forgets the general-knowledge branch
RouteAfterFirstRunAlwaysQuery(st) == "generate_search_query"

\* a router that trusts the persisted is_search_relevant on every turn
RouteAfterFirstRunTrustingRelevance(st) ==
  IF Get(st, "is_search_relevant", FALSE) THEN "rag_response"
  ELSE "generate_search_query"

route_after_first_run_check(st) ==
  IF ~Get(st, "is_first_run", TRUE) THEN "generate_search_query"
  ELSE IF Get(st, "is_search_relevant", FALSE) THEN "rag_response"
  ELSE "generate_search_query"

\* a router that forgets the first-run branch
RouteAfterQueryAlwaysRelevance(st) == "check_relevance"

route_after_search_query(st) ==
  IF Get(st, "is_first_run", TRUE) THEN "web_search_and_store"
  ELSE "check_relevance"

route_after_relevance_check(st) ==
  IF Get(st, "is_search_relevant", FALSE) THEN "rag_response"
  ELSE "web_search_and_store"

\* an edge that sends a failed acquisition back into the acquisition node
EdgeRetryingAcquisition(st) ==
  IF Get(st, "has_search_data", FALSE) THEN "rag_response" ELSE "web_search_and_store"

edge_after_web_search_and_store(st) == "rag_response"

edge_after_rag_response(st) == END

\* the wiring of the graph
NextNode(node, st) ==
  CASE node = "check_first_run_search_need" -> route_after_first_run_check(st)
    [] node = "generate_search_query" -> route_after_search_query(st)
    [] node = "check_relevance" -> route_after_relevance_check(st)
    [] node = "web_search_and_store" -> edge_after_web_search_and_store(st)
    [] node = "rag_response" -> edge_after_rag_response(st)

EntryPoint == "check_first_run_search_need"

(* --------------------------- the state machine ------------------------- *)

NewTurn(st) ==
  [ first_run |-> Get(st, "is_first_run", TRUE),
    had_data |-> Get(st, "has_search_data", FALSE),
    trace |-> << >>,
    decision |-> "none",
    outcome |-> "running",
    len0 |-> Len(st.messages),
    fx |-> NoEffects ]

NoTurn ==
  [ first_run |-> TRUE, had_data |-> FALSE, trace |-> << >>, decision |-> "none",
    outcome |-> "none", len0 |-> 0, fx |-> NoEffects ]

AddEffects(a, b) ==
  [ web |-> a.web + b.web, write |-> a.write + b.write, read |-> a.read + b.read,
    model |-> a.model + b.model, query |-> a.query + b.query,
    prompt |-> IF b.prompt # "none" THEN b.prompt ELSE a.prompt,
    acquire |-> IF b.acquire # "none" THEN b.acquire ELSE a.acquire,
    names |-> a.names \cup b.names,
    chunks |-> a.chunks + b.chunks,
    probe |-> IF b.probe # "none" THEN b.probe ELSE a.probe,
    qstatus |-> IF b.qstatus # "none" THEN b.qstatus ELSE a.qstatus,
    sent |-> IF b.sent # << >> THEN b.sent ELSE a.sent,
    searched |-> IF b.searched # "none" THEN b.searched ELSE a.searched ]

\* a tool-calling agent that has not been invoked
NoInvocation ==
  [ agent |-> "none", pc |-> "idle", messages |-> << >>, remaining_steps |-> 0,
    trace |-> << >>, outcome |-> "none", seen_steps |-> 0, requested |-> 0,
    response_id |-> 0 ]

\* the collections of the knowledge base and of the threads
KnowledgeCollections == {"richard-projects", "richard-resume"}

GatewayCollections == KnowledgeCollections \cup CollectionNames

\* no retrieval tool has been called
NoCall ==
  [op |-> "none", collection |-> "", query |-> << >>, search_kwargs |-> << >>,
   result |-> Str(0)]

NoDocuments == [c \in GatewayCollections |-> [exists |-> FALSE, docs |-> 0]]

\* no text function has been applied
NoApplication == [fn |-> "none", input |-> << >>, parts |-> << >>, output |-> ""]

Init ==
  /\ app = NoApplication
  /\ vs = NoDocuments
  /\ call = NoCall
  /\ state = [t \in Threads |-> [messages |-> << >>]]
  /\ pc = [t \in Threads |-> "idle"]
  /\ turn = [t \in Threads |-> NoTurn]
  /\ store = [c \in CollectionNames |-> [exists |-> FALSE, docs |-> 0]]
  /\ turns = 0
  /\ asst = NoInvocation

\* The caller invokes the graph with the user's message on an idle thread.
StartTurn(t, q) ==
  /\ pc[t] = "idle"
  /\ turns < MaxTurns
  /\ LET st == ApplyUpdate(state[t], [messages |-> <<HumanMessage(q)>>])
     IN /\ state' = [state EXCEPT ![t] = st]
        /\ turn' = [turn EXCEPT ![t] = NewTurn(st)]
  /\ pc' = [pc EXCEPT ![t] = EntryPoint]
  /\ turns' = turns + 1
  /\ UNCHANGED store
  /\ UNCHANGED <<asstVars, gwVars, fnVars>>

\* One node has run with result res: its update is merged and the wiring
\* picks the next node; an exception ends the invocation with the state of
\* the last completed step.
Step(t, node, res, decision) ==
  LET st == IF res.raised THEN state[t] ELSE ApplyUpdate(state[t], res.update)
      nxt == IF res.raised THEN END ELSE NextNode(node, st)
  IN /\ state' = [state EXCEPT ![t] = st]
     /\ pc' = [pc EXCEPT ![t] = IF nxt = END THEN "idle" ELSE nxt]
     /\ turn' = [turn EXCEPT ![t] =
                   [ @ EXCEPT !.trace = Append(@, node),
                              !.decision = IF decision # "none" THEN decision ELSE @,
                              !.outcome = IF res.raised THEN "raised"
                                          ELSE IF nxt = END THEN "end" ELSE @,
                              !.fx = AddEffects(@, res.fx) ]]
     /\ turns' = turns
     /\ UNCHANGED <<asstVars, gwVars, fnVars>>

CheckFirstRunSearchNeed(t) ==
  /\ pc[t] = "check_first_run_search_need"
  /\ \E d \in FirstRunJudgeOutcomes :
       LET res == check_first_run_search_need_node(state[t], Config(t), d)
       IN Step(t, "check_first_run_search_need", res,
               IF res.fx.model = 1 THEN d ELSE "none")
  /\ UNCHANGED store

GenerateSearchQuery(t) ==
  /\ pc[t] = "generate_search_query"
  /\ \E out \in QueryModelOutcomes :
       Step(t, "generate_search_query",
            generate_search_query_node(state[t], Config(t), out), "none")
  /\ UNCHANGED store

\* what the thread's collection holds when a node turns to it
CollectionStatus(c) ==
  IF ~store[c].exists THEN "missing"
  ELSE IF store[c].docs = 0 THEN "empty" ELSE "nonempty"

CheckRelevance(t) ==
  /\ pc[t] = "check_relevance"
  /\ \E ctx \in web_vector_search_call(store, get_collection_name_from_thread(Config(t))) :
       \E d \in RelevanceJudgeOutcomes :
         LET res == check_relevance_node(state[t], Config(t), ctx, d)
             seen == CollectionStatus(get_collection_name_from_thread(Config(t)))
         IN Step(t, "check_relevance", [res EXCEPT !.fx.probe = seen], d)
  /\ UNCHANGED store

\* an acquisition that stores every thread's results in one collection
WebSearchAndStoreSharedCollection(t) ==
  /\ pc[t] = "web_search_and_store"
  /\ \E search \in SearchOutcomes : \E storage \in StorageOutcomes :
       LET res == web_search_and_store_node(state[t], Config(t), search, storage)
           c == CHOOSE n \in CollectionNames : TRUE
       IN /\ Step(t, "web_search_and_store", res, "none")
          /\ store' = IF res.fx.write = 1
                      THEN [store EXCEPT ![c] = [exists |-> TRUE,
                                                 docs |-> @.docs + res.fx.chunks]]
                      ELSE store

WebSearchAndStore(t) ==
  /\ pc[t] = "web_search_and_store"
  /\ \E search \in SearchOutcomes : \E storage \in StorageOutcomes :
       LET res == web_search_and_store_node(state[t], Config(t), search, storage)
           c == get_collection_name_from_thread(Config(t))
       IN /\ Step(t, "web_search_and_store", res, "none")
          /\ store' = IF res.fx.write = 1
                      THEN [store EXCEPT ![c] = [exists |-> TRUE,
                                                 docs |-> @.docs + res.fx.chunks]]
                      ELSE store

\* a response node that drops the thread's collection once it has answered
RagResponseCleaningUp(t) ==
  /\ pc[t] = "rag_response"
  /\ \E ctx \in web_vector_search_call(store, get_collection_name_from_thread(Config(t))) :
       \E a \in AnswerModelOutcomes :
         Step(t, "rag_response", rag_response_node(state[t], Config(t), ctx, a), "none")
  /\ store' = [store EXCEPT ![get_collection_name_from_thread(Config(t))] =
                 [exists |-> FALSE, docs |-> 0]]

RagResponse(t) ==
  /\ pc[t] = "rag_response"
  /\ \E ctx \in web_vector_search_call(store, get_collection_name_from_thread(Config(t))) :
       \E a \in AnswerModelOutcomes :
         Step(t, "rag_response", rag_response_node(state[t], Config(t), ctx, a), "none")
  /\ UNCHANGED store

\* cleanup_temp_collection(collection_name), called from outside the graph:
\* the collection is deleted, or the deletion fails and False is returned.
CleanupTempCollection(t) ==
  /\ \E ok \in BOOLEAN :
       store' = IF ok
                THEN [store EXCEPT ![get_collection_name_from_thread(Config(t))] =
                        [exists |-> FALSE, docs |-> 0]]
                ELSE store
  /\ UNCHANGED <<state, pc, turn, turns>>
  /\ UNCHANGED <<asstVars, gwVars, fnVars>>

Next ==
  \E t \in Threads :
    \/ \E q \in Questions : StartTurn(t, q)
    \/ CheckFirstRunSearchNeed(t)
    \/ GenerateSearchQuery(t)
    \/ CheckRelevance(t)
    \/ WebSearchAndStore(t)
    \/ RagResponse(t)
    \/ CleanupTempCollection(t)

Spec == Init /\ [][Next]_vars

(* ---------------- cleanup between the turns of a thread ---------------- *)

\* the thread and the question followed through turns and cleanups
CleanupThreads == {"t1"}

CleanupQuestions == {"qa"}

\* cleanup_temp_collection(collection_name): the collection is deleted and
\* True returned, or an exception inside is caught and False returned
cleanup_temp_collection(st, collection_name, deleted) ==
  [ store |-> IF deleted
              THEN [st EXCEPT ![collection_name] = [exists |-> FALSE, docs |-> 0]]
              ELSE st,
    result |-> deleted ]

\* a cleanup that also starts the thread's conversation state afresh
CleanupResettingFlags(t) ==
  /\ \E deleted \in BOOLEAN :
       LET collection_name == get_collection_name_from_thread(Config(t))
           out == cleanup_temp_collection(store, collection_name, deleted)
       IN /\ store' = out.store
          /\ call' = [op |-> "cleanup_temp_collection", collection |-> collection_name,
                      query |-> << >>, search_kwargs |-> << >>, result |-> out.result]
  /\ state' = [state EXCEPT ![t] = [messages |-> state[t].messages]]
  /\ UNCHANGED <<pc, turn, turns, vs>>
  /\ UNCHANGED <<asstVars, fnVars>>

\* The caller cleans up the collection of a thread, at any time, and looks
\* at the value returned.
CleanupTempCollectionObserved(t) ==
  /\ \E deleted \in BOOLEAN :
       LET collection_name == get_collection_name_from_thread(Config(t))
           out == cleanup_temp_collection(store, collection_name, deleted)
       IN /\ store' = out.store
          /\ call' = [op |-> "cleanup_temp_collection", collection |-> collection_name,
                      query |-> << >>, search_kwargs |-> << >>, result |-> out.result]
  /\ UNCHANGED <<state, pc, turn, turns, vs>>
  /\ UNCHANGED <<asstVars, fnVars>>

CleanupNext ==
  \E t \in CleanupThreads :
    \/ \E q \in CleanupQuestions : StartTurn(t, q)
    \/ CheckFirstRunSearchNeed(t)
    \/ GenerateSearchQuery(t)
    \/ CheckRelevance(t)
    \/ WebSearchAndStore(t)
    \/ RagResponse(t)
    \/ CleanupTempCollectionObserved(t)

CleanupSpec == Init /\ [][CleanupNext]_vars

(* ---------------- the tool-calling agents (model / tools loop) ---------- *)

\* the largest step budget an invocation starts with
MaxRemainingSteps == 12
\* the most tool calls one model response requests
MaxToolCalls == 2

\* the safety margin of the resume assistant
SafetyMargin == 10

Agents == {"rag_assistant", "react_agent"}

\* remaining_steps as the first node sees it: the caller's recursion limit
\* decides it, so it may start below the margin
StartingSteps == (SafetyMargin - 1) .. MaxRemainingSteps

\* what the bound model answers: an AIMessage with a fresh id that requests n
\* tool calls, or an exception
ModelResponses(st) ==
  { [ok |-> TRUE,
     message |-> [type |-> "ai", content |-> "response", id |-> Len(st.messages) + 1,
                  tool_calls |-> n]] : n \in 0 .. MaxToolCalls }
  \cup { [ok |-> FALSE, message |-> [type |-> "ai", content |-> "", id |-> 0, tool_calls |-> 0]] }

NeedMoreSteps == "Sorry, need more steps to process this request."

\* a model node that passes every response on, whatever the budget
AcallModelIgnoringBudget(st, response) ==
  [messages |-> << response >>]

\* rag_assistant.acall_model, given the response of the model
acall_model(st, response) ==
  IF st.remaining_steps < SafetyMargin /\ response.tool_calls > 0
  THEN [messages |-> << [type |-> "ai", id |-> response.id, content |-> NeedMoreSteps,
                        tool_calls |-> 0] >>]
  ELSE [messages |-> << response >>]

\* react_agent.acall_model, given the response of the model
react_acall_model(st, response) ==
  [messages |-> << response >>]

\* ToolNode: one ToolMessage for every tool call of the last message
ToolNode(st) ==
  [messages |-> [i \in 1 .. LastMessage(st).tool_calls |->
                   [type |-> "tool", content |-> "tool result", id |-> 0, tool_calls |-> 0]]]

\* an edge that sends every assistant message to the tools node
PendingToolCallsIgnoringCalls(st) ==
  LET last_message == LastMessage(st)
  IN IF last_message.type # "ai" THEN "TypeError" ELSE "tools"

\* the conditional edge after "model" (the same function in both agents)
pending_tool_calls(st) ==
  LET last_message == LastMessage(st)
  IN IF last_message.type # "ai" THEN "TypeError"
     ELSE IF last_message.tool_calls > 0 THEN "tools"
     ELSE "done"

\* The caller invokes one of the agents with the user's message; one
\* invocation is followed to its end.
AssistInvoke(agent, q, steps) ==
  /\ asst.pc = "idle"
  /\ asst.agent = "none"
  /\ asst' = [ agent |-> agent,
               pc |-> "model",
               messages |-> add_messages(asst.messages,
                              << [type |-> "human", content |-> q, id |-> 0, tool_calls |-> 0] >>),
               remaining_steps |-> steps,
               trace |-> << >>,
               outcome |-> "running",
               seen_steps |-> 0, requested |-> 0, response_id |-> 0 ]
  /\ UNCHANGED <<webVars, gwVars, fnVars>>

\* The graph runs no further step once the budget is used up.
AssistOutOfSteps ==
  /\ asst.pc \in {"model", "tools"}
  /\ asst.remaining_steps = 0
  /\ asst' = [asst EXCEPT !.pc = "idle", !.outcome = "GraphRecursionError"]
  /\ UNCHANGED <<webVars, gwVars, fnVars>>

\* node "model"
AssistModel ==
  /\ asst.pc = "model"
  /\ asst.remaining_steps > 0
  /\ \E r \in ModelResponses(asst) :
       IF ~r.ok
       THEN asst' = [asst EXCEPT !.pc = "idle", !.outcome = "raised",
                                 !.trace = Append(@, "model"),
                                 !.seen_steps = asst.remaining_steps,
                                 !.requested = 0, !.response_id = 0]
       ELSE LET u == IF asst.agent = "rag_assistant"
                     THEN acall_model(asst, r.message)
                     ELSE react_acall_model(asst, r.message)
                st == [asst EXCEPT !.messages = add_messages(@, u.messages)]
                nxt == pending_tool_calls(st)
            IN asst' = [st EXCEPT !.pc = IF nxt = "tools" THEN "tools" ELSE "idle",
                                  !.outcome = IF nxt = "tools" THEN "running"
                                              ELSE IF nxt = "done" THEN "end" ELSE nxt,
                                  !.trace = Append(@, "model"),
                                  !.remaining_steps = @ - 1,
                                  !.seen_steps = asst.remaining_steps,
                                  !.requested = r.message.tool_calls,
                                  !.response_id = r.message.id]
  /\ UNCHANGED <<webVars, gwVars, fnVars>>

\* node "tools", always followed by "model"
AssistTools ==
  /\ asst.pc = "tools"
  /\ asst.remaining_steps > 0
  /\ asst' = [asst EXCEPT !.messages = add_messages(@, ToolNode(asst).messages),
                          !.pc = "model",
                          !.trace = Append(@, "tools"),
                          !.remaining_steps = @ - 1]
  /\ UNCHANGED <<webVars, gwVars, fnVars>>

AssistNext ==
  \/ \E agent \in Agents : \E q \in Questions : \E steps \in StartingSteps :
       AssistInvoke(agent, q, steps)
  \/ AssistOutOfSteps
  \/ AssistModel
  \/ AssistTools

AssistSpec == Init /\ [][AssistNext]_vars

(* ----------------------- the keyword filter ----------------------------- *)

\* A query is the sequence of its characters.
GatewayQueries ==
  { <<"P", "y", "t", "h", "o", "n", " ", "R", "E", "A", "D", "M", "E">>,
    <<"p", "o", "s", "t", "g", "r", "e", "s", "q", "l">>,
    <<"k", "8", "s", " ", "k", "u", "b", "e", "r", "n", "e", "t", "e", "s">>,
    <<"r", "e", "a", "c", "t", " ", "t", "y", "p", "e", "s", "c", "r", "i", "p", "t">>,
    <<"p", "r", "o", "j", "e", "c", "t", " ", "s", "u", "m", "m", "a", "r", "y", " ", "d", "o", "c", "u", "m", "e", "n", "t", "a", "t", "i", "o", "n">>,
    <<"h", "e", "l", "l", "o">>,
    <<"s", "k", "i", "l", "l", "s", " ", "a", "n", "d", " ", "w", "o", "r", "k">>,
    <<"e", "d", "u", "c", "a", "t", "i", "o", "n", " ", "d", "e", "g", "r", "e", "e">>,
    <<"p", "d", "f", " ", "w", "e", "b">>,
    <<"T", "e", "c", "h", "n", "i", "c", "a", "l", " ", "S", "k", "i", "l", "l", "s">> }

UpperCase ==
  <<"A", "B", "C", "D", "E", "F", "G", "H", "I", "J", "K", "L", "M",
    "N", "O", "P", "Q", "R", "S", "T", "U", "V", "W", "X", "Y", "Z">>

LowerCase ==
  <<"a", "b", "c", "d", "e", "f", "g", "h", "i", "j", "k", "l", "m",
    "n", "o", "p", "q", "r", "s", "t", "u", "v", "w", "x", "y", "z">>

\* str.lower()
lower(query) ==
  [i \in DOMAIN query |->
     IF \E n \in DOMAIN UpperCase : UpperCase[n] = query[i]
     THEN LowerCase[CHOOSE n \in DOMAIN UpperCase : UpperCase[n] = query[i]]
     ELSE query[i]]

\* keyword in query_lower
Contains(keyword, text) ==
  \E i \in 0 .. (Len(text) - Len(keyword)) :
    \A j \in 1 .. Len(keyword) : text[i + j] = keyword[j]

\* any(keyword in query_lower for keyword in keywords)
ContainsAny(keywords, text) == \E keyword \in keywords : Contains(keyword, text)

\* the items of tech_keywords, in the order of the dictionary
tech_keywords ==
  << [keyword |-> <<"p", "y", "t", "h", "o", "n">>, tag |-> "python"],
     [keyword |-> <<"r", "e", "a", "c", "t">>, tag |-> "react"],
     [keyword |-> <<"t", "y", "p", "e", "s", "c", "r", "i", "p", "t">>, tag |-> "typescript"],
     [keyword |-> <<"j", "a", "v", "a", "s", "c", "r", "i", "p", "t">>, tag |-> "javascript"],
     [keyword |-> <<"n", "e", "x", "t", "j", "s">>, tag |-> "nextjs"],
     [keyword |-> <<"n", "e", "x", "t", ".", "j", "s">>, tag |-> "nextjs"],
     [keyword |-> <<"d", "j", "a", "n", "g", "o">>, tag |-> "django"],
     [keyword |-> <<"f", "a", "s", "t", "a", "p", "i">>, tag |-> "fastapi"],
     [keyword |-> <<"s", "t", "r", "e", "a", "m", "l", "i", "t">>, tag |-> "streamlit"],
     [keyword |-> <<"d", "o", "c", "k", "e", "r">>, tag |-> "docker"],
     [keyword |-> <<"k", "u", "b", "e", "r", "n", "e", "t", "e", "s">>, tag |-> "kubernetes"],
     [keyword |-> <<"k", "8", "s">>, tag |-> "kubernetes"],
     [keyword |-> <<"p", "o", "s", "t", "g", "r", "e", "s", "q", "l">>, tag |-> "postgresql"],
     [keyword |-> <<"p", "o", "s", "t", "g", "r", "e", "s">>, tag |-> "postgresql"],
     [keyword |-> <<"m", "o", "n", "g", "o", "d", "b">>, tag |-> "mongodb"],
     [keyword |-> <<"r", "e", "d", "i", "s">>, tag |-> "redis"],
     [keyword |-> <<"t", "e", "n", "s", "o", "r", "f", "l", "o", "w">>, tag |-> "tensorflow"],
     [keyword |-> <<"p", "y", "t", "o", "r", "c", "h">>, tag |-> "pytorch"],
     [keyword |-> <<"o", "p", "e", "n", "a", "i">>, tag |-> "openai"],
     [keyword |-> <<"l", "a", "n", "g", "c", "h", "a", "i", "n">>, tag |-> "langchain"],
     [keyword |-> <<"a", "n", "t", "h", "r", "o", "p", "i", "c">>, tag |-> "anthropic"],
     [keyword |-> <<"a", "z", "u", "r", "e">>, tag |-> "azure"],
     [keyword |-> <<"a", "w", "s">>, tag |-> "aws"],
     [keyword |-> <<"g", "c", "p">>, tag |-> "gcp"],
     [keyword |-> <<"g", "o", "o", "g", "l", "e", " ", "c", "l", "o", "u", "d">>, tag |-> "gcp"] >>

work_keywords == {<<"w", "o", "r", "k">>, <<"e", "x", "p", "e", "r", "i", "e", "n", "c", "e">>, <<"j", "o", "b">>, <<"e", "m", "p", "l", "o", "y", "m", "e", "n", "t">>, <<"c", "a", "r", "e", "e", "r">>}

education_keywords == {<<"e", "d", "u", "c", "a", "t", "i", "o", "n">>, <<"s", "c", "h", "o", "o", "l">>, <<"u", "n", "i", "v", "e", "r", "s", "i", "t", "y">>, <<"d", "e", "g", "r", "e", "e">>, <<"c", "o", "l", "o", "r", "a", "d", "o">>, <<"b", "o", "u", "l", "d", "e", "r">>, <<"c", "u">>}

skills_keywords == {<<"s", "k", "i", "l", "l", "s">>, <<"t", "e", "c", "h", "n", "i", "c", "a", "l">>, <<"p", "r", "o", "g", "r", "a", "m", "m", "i", "n", "g">>, <<"l", "a", "n", "g", "u", "a", "g", "e", "s">>, <<"t", "e", "c", "h", "n", "o", "l", "o", "g", "i", "e", "s">>}

content_readme_keywords == {<<"r", "e", "a", "d", "m", "e">>, <<"d", "o", "c", "u", "m", "e", "n", "t", "a", "t", "i", "o", "n">>, <<"d", "e", "t", "a", "i", "l", "e", "d">>}

content_description_keywords == {<<"d", "e", "s", "c", "r", "i", "p", "t", "i", "o", "n">>, <<"s", "u", "m", "m", "a", "r", "y">>, <<"o", "v", "e", "r", "v", "i", "e", "w">>}

source_web_keywords == {<<"w", "e", "b">>, <<"w", "e", "b", "s", "i", "t", "e">>}

\* {} and the dictionaries built from it
EmptyDict == << >>

\* d.update(e), d[k] = v
Updated(d, e) == e @@ d

\* {"tags": {"$like": f"%{tag}%"}}
TagFilter(tag) == "tags" :> ("$like" :> ("%" \o tag \o "%"))

\* matching_tags: the tag of every keyword found, in the order of the table
RECURSIVE MatchingTags(_, _)
MatchingTags(table, query_lower) ==
  IF table = << >> THEN << >>
  ELSE IF Contains(Head(table).keyword, query_lower)
       THEN << Head(table).tag >> \o MatchingTags(Tail(table), query_lower)
       ELSE MatchingTags(Tail(table), query_lower)

\* a filter that tries the resume sections in the opposite order
BuildKeywordFilterSkillsFirst(query, collection_type) ==
  LET query_lower == lower(query)
  IN IF collection_type # "resume" THEN EmptyDict
     ELSE IF ContainsAny(skills_keywords, query_lower)
     THEN "section" :> ("$eq" :> "Skills")
     ELSE IF ContainsAny(education_keywords, query_lower)
     THEN "section" :> ("$eq" :> "Education")
     ELSE IF ContainsAny(work_keywords, query_lower)
     THEN "section" :> ("$eq" :> "Work Experience")
     ELSE EmptyDict

\* a filter in which the later alternative of each choice wins
KeywordFilterLaterTermWins(query_lower, collection_type) ==
     IF collection_type = "projects"
     THEN LET matching_tags == MatchingTags(tech_keywords, query_lower)
              tag_filters == [i \in DOMAIN matching_tags |-> TagFilter(matching_tags[i])]
              d1 == IF Len(matching_tags) = 0 THEN EmptyDict
                    ELSE IF Len(tag_filters) = 1 THEN Updated(EmptyDict, tag_filters[1])
                    ELSE Updated(EmptyDict, "$or" :> tag_filters)
          IN IF ContainsAny(content_description_keywords, query_lower)
             THEN Updated(d1, "content_type" :> ("$eq" :> "description"))
             ELSE IF ContainsAny(content_readme_keywords, query_lower)
             THEN Updated(d1, "content_type" :> ("$eq" :> "readme"))
             ELSE d1
     ELSE IF collection_type = "resume"
     THEN LET d1 == IF ContainsAny(work_keywords, query_lower)
                    THEN Updated(EmptyDict, "section" :> ("$eq" :> "Work Experience"))
                    ELSE IF ContainsAny(education_keywords, query_lower)
                    THEN Updated(EmptyDict, "section" :> ("$eq" :> "Education"))
                    ELSE IF ContainsAny(skills_keywords, query_lower)
                    THEN Updated(EmptyDict, "section" :> ("$eq" :> "Skills"))
                    ELSE EmptyDict
          IN IF ContainsAny(source_web_keywords, query_lower)
             THEN Updated(d1, "source" :> ("$like" :> "%richardr.dev%"))
             ELSE IF Contains(<<"p", "d", "f">>, query_lower)
             THEN Updated(d1, "source" :> ("$like" :> "%drive.google.com%"))
             ELSE d1
     ELSE EmptyDict

\* the body of build_keyword_filter below `query_lower = query.lower()`
KeywordFilterOf(query_lower, collection_type) ==
     IF collection_type = "projects"
     THEN LET matching_tags == MatchingTags(tech_keywords, query_lower)
              tag_filters == [i \in DOMAIN matching_tags |-> TagFilter(matching_tags[i])]
              d1 == IF Len(matching_tags) = 0 THEN EmptyDict
                    ELSE IF Len(tag_filters) = 1 THEN Updated(EmptyDict, tag_filters[1])
                    ELSE Updated(EmptyDict, "$or" :> tag_filters)
          IN IF ContainsAny(content_readme_keywords, query_lower)
             THEN Updated(d1, "content_type" :> ("$eq" :> "readme"))
             ELSE IF ContainsAny(content_description_keywords, query_lower)
             THEN Updated(d1, "content_type" :> ("$eq" :> "description"))
             ELSE d1
     ELSE IF collection_type = "resume"
     THEN LET d1 == IF ContainsAny(work_keywords, query_lower)
                    THEN Updated(EmptyDict, "section" :> ("$eq" :> "Work Experience"))
                    ELSE IF ContainsAny(education_keywords, query_lower)
                    THEN Updated(EmptyDict, "section" :> ("$eq" :> "Education"))
                    ELSE IF ContainsAny(skills_keywords, query_lower)
                    THEN Updated(EmptyDict, "section" :> ("$eq" :> "Skills"))
                    ELSE EmptyDict
          IN IF Contains(<<"p", "d", "f">>, query_lower)
             THEN Updated(d1, "source" :> ("$like" :> "%drive.google.com%"))
             ELSE IF ContainsAny(source_web_keywords, query_lower)
             THEN Updated(d1, "source" :> ("$like" :> "%richardr.dev%"))
             ELSE d1
     ELSE EmptyDict

\* a filter that matches the keywords against the query as it was typed
BuildKeywordFilterCaseSensitive(query, collection_type) ==
  KeywordFilterOf(query, collection_type)

build_keyword_filter(query, collection_type) ==
  LET query_lower == lower(query)
  IN KeywordFilterOf(query_lower, collection_type)

\* search_kwargs of projects_search / resume_search
SearchKwargs(filter_dict) ==
  IF DOMAIN filter_dict # {}
  THEN Updated("k" :> RetrievalK, "filter" :> filter_dict)
  ELSE "k" :> RetrievalK

(* ------------------ the keyword filter, query by query ------------------ *)

\* words in a query handed to the filter
MaxWords == 2

\* the words the queries are made of
Vocabulary ==
  { <<"r", "e", "a", "d", "m", "e">>,
    <<"s", "u", "m", "m", "a", "r", "y">>,
    <<"p", "d", "f">>,
    <<"w", "e", "b">>,
    <<"p", "y", "t", "h", "o", "n">>,
    <<"p", "o", "s", "t", "g", "r", "e", "s", "q", "l">>,
    <<"k", "8", "s">>,
    <<"k", "u", "b", "e", "r", "n", "e", "t", "e", "s">>,
    <<"w", "o", "r", "k">>,
    <<"h", "e", "l", "l", "o">> }

\* the collection types the filter is asked for (one of them unknown)
CollectionTypes == {"projects", "resume", "other"}

\* the query so far with one more word
WithWord(word) ==
  IF app.fn \in {"projects_search", "resume_search", "build_keyword_filter"}
  THEN app.query \o << " " >> \o word
  ELSE word

WordsSoFar ==
  IF app.fn \in {"projects_search", "resume_search", "build_keyword_filter"}
  THEN app.words ELSE 0

\* projects_search / resume_search up to the retriever they configure:
\* the filter of the query and the search_kwargs built from it
KeywordSearch(word, collection_type) ==
  /\ app.fn \in {"none", "projects_search", "resume_search", "build_keyword_filter"}
  /\ WordsSoFar < MaxWords
  /\ collection_type \in {"projects", "resume"}
  /\ LET query == WithWord(word)
         filter_dict == build_keyword_filter(query, collection_type)
     IN app' = [ fn |-> collection_type \o "_search",
                 query |-> query, words |-> WordsSoFar + 1,
                 collection_type |-> collection_type,
                 filter |-> filter_dict,
                 search_kwargs |-> SearchKwargs(filter_dict) ]
  /\ UNCHANGED <<webVars, asstVars, gwVars>>

\* build_keyword_filter asked for a collection type it does not know; no
\* search is configured from the result
BuildFilterOfUnknownType(word, collection_type) ==
  /\ app.fn \in {"none", "projects_search", "resume_search", "build_keyword_filter"}
  /\ WordsSoFar < MaxWords
  /\ collection_type \notin {"projects", "resume"}
  /\ LET query == WithWord(word)
     IN app' = [ fn |-> "build_keyword_filter",
                 query |-> query, words |-> WordsSoFar + 1,
                 collection_type |-> collection_type,
                 filter |-> build_keyword_filter(query, collection_type),
                 search_kwargs |-> EmptyDict ]
  /\ UNCHANGED <<webVars, asstVars, gwVars>>

FilterNext ==
  \E word \in Vocabulary : \E collection_type \in CollectionTypes :
    \/ KeywordSearch(word, collection_type)
    \/ BuildFilterOfUnknownType(word, collection_type)

FilterSpec == Init /\ [][FilterNext]_vars

(* ------------------------ the retrieval tools --------------------------- *)

\* document counts of a collection that exists
StoredDocs == {0, 3}

\* the stores the tools may find: every collection missing, empty or filled
VectorStores ==
  [GatewayCollections ->
     {[exists |-> FALSE, docs |-> 0]} \cup {[exists |-> TRUE, docs |-> n] : n \in StoredDocs}]

ExceptionRaised == [kind |-> "Exception", len |-> 0]

\* a constructor that empties the collection it is opened on
\* (pre_delete_collection=True)
CreatePgvectorInstancePreDeleting(st, collection_name) ==
  [st EXCEPT ![collection_name] = [exists |-> TRUE, docs |-> 0]]

\* create_pgvector_instance: the store after the PGVector object is built
\* (create_extension=False, nothing deleted, nothing written)
create_pgvector_instance(st, collection_name) == st

\* projects_search / resume_search on their collection: the formatted context
\* of the documents found, or whatever exception the retriever raises
knowledge_search(st, collection_name) ==
  {ExceptionRaised} \cup
  (IF st[collection_name].exists /\ st[collection_name].docs > 0
   THEN {Str(n) : n \in ContextLens}
   ELSE {Str(0)})

GatewayInit ==
  /\ app = NoApplication
  /\ vs \in VectorStores
  /\ call = NoCall
  /\ state = [t \in Threads |-> [messages |-> << >>]]
  /\ pc = [t \in Threads |-> "idle"]
  /\ turn = [t \in Threads |-> NoTurn]
  /\ store = [c \in CollectionNames |-> [exists |-> FALSE, docs |-> 0]]
  /\ turns = 0
  /\ asst = NoInvocation

\* await web_vector_search(query, collection_name, k, score_threshold)
WebVectorSearch(q, c) ==
  /\ LET st == create_pgvector_instance(vs, c)
     IN /\ \E r \in web_vector_search(st, c) :
             call' = [op |-> "web_vector_search", collection |-> c, query |-> q,
                      search_kwargs |-> "k" :> RetrievalK, result |-> r]
        /\ vs' = st
  /\ UNCHANGED <<webVars, asstVars, fnVars>>

\* await projects_search(query)
ProjectsSearch(q) ==
  /\ LET st == create_pgvector_instance(vs, "richard-projects")
         filter_dict == build_keyword_filter(q, "projects")
     IN /\ \E r \in knowledge_search(st, "richard-projects") :
             call' = [op |-> "projects_search", collection |-> "richard-projects",
                      query |-> q, search_kwargs |-> SearchKwargs(filter_dict),
                      result |-> r]
        /\ vs' = st
  /\ UNCHANGED <<webVars, asstVars, fnVars>>

\* await resume_search(query)
ResumeSearch(q) ==
  /\ LET st == create_pgvector_instance(vs, "richard-resume")
         filter_dict == build_keyword_filter(q, "resume")
     IN /\ \E r \in knowledge_search(st, "richard-resume") :
             call' = [op |-> "resume_search", collection |-> "richard-resume",
                      query |-> q, search_kwargs |-> SearchKwargs(filter_dict),
                      result |-> r]
        /\ vs' = st
  /\ UNCHANGED <<webVars, asstVars, fnVars>>

GatewayNext ==
  \E q \in GatewayQueries :
    \/ \E c \in CollectionNames : WebVectorSearch(q, c)
    \/ ProjectsSearch(q)
    \/ ResumeSearch(q)

GatewaySpec == GatewayInit /\ [][GatewayNext]_vars

(* ------------------- chunking of acquired web results ------------------ *)

\* the smaller of two numbers
Min(a, b) == IF a <= b THEN a ELSE b

\* chunk length and overlap, counted in characters
ChunkSize == 1000
ChunkOverlap == 200

\* lengths, in characters, of the text of one search result
TextLengths == {0, 1, 200, 999, 1000, 1001, 1800, 1801, 2600, 3400}

\* the windows of at most ChunkSize characters over a text of the given
\* length, each starting step characters after the one before
RECURSIVE ChunksFrom(_, _, _)
ChunksFrom(first, length, step) ==
  IF length = 0 THEN << >>
  ELSE LET last == Min(first + ChunkSize - 1, length)
       IN IF last = length
          THEN << [first |-> first, last |-> last] >>
          ELSE << [first |-> first, last |-> last] >>
                 \o ChunksFrom(first + step, length, step)

\* windows laid end to end, sharing nothing
SplitTextWithoutOverlap(length) == ChunksFrom(1, length, ChunkSize)

\* the chunks one result's text is stored as
split_text(length) == ChunksFrom(1, length, ChunkSize - ChunkOverlap)

\* web_search_and_store_node asks for max_results results; the search
\* returns n of them
AcquireResults(n) ==
  /\ \/ app.fn = "none"
     \/ app.fn = "store_search_results_in_vector_db" /\ app.stored = app.results
  /\ n <= MaxSearchResults
  /\ app' = [ fn |-> "store_search_results_in_vector_db",
              max_results |-> MaxSearchResults,
              results |-> n, stored |-> 0, text |-> 0,
              chunks |-> << >>, num_chunks |-> 0 ]
  /\ UNCHANGED <<webVars, asstVars, gwVars>>

\* the next result is split and its chunks are stored
StoreResult(length) ==
  /\ app.fn = "store_search_results_in_vector_db"
  /\ app.stored < app.results
  /\ LET chunks == split_text(length)
     IN app' = [app EXCEPT !.stored = @ + 1, !.text = length,
                           !.chunks = chunks, !.num_chunks = @ + Len(chunks)]
  /\ UNCHANGED <<webVars, asstVars, gwVars>>

ChunkNext ==
  \/ \E n \in 0 .. MaxSearchResults : AcquireResults(n)
  \/ \E length \in TextLengths : StoreResult(length)

ChunkSpec == Init /\ [][ChunkNext]_vars

(* ------------- the history window of the query optimizer --------------- *)

\* messages in a conversation handed to the optimizer
MaxMessages == 7

MessageTypes == {"human", "ai", "system"}

\* the content of the i-th message of a conversation
ContentAt(i) ==
  << "m1", "m2", "m3", "m4", "m5", "m6", "m7", "m8", "m9", "m10" >>[i]

\* a window that takes the last five messages, the current one among them
RecentMessagesIncludingCurrent(messages) ==
  IF Len(messages) > 5
  THEN SubSeq(messages, Len(messages) - 4, Len(messages))
  ELSE messages

\* state["messages"][-6:-1] if len(state["messages"]) > 5 else state["messages"][:-1]
recent_messages(messages) ==
  IF Len(messages) > 5
  THEN SubSeq(messages, Len(messages) - 6 + 1, Len(messages) - 1)
  ELSE SubSeq(messages, 1, Len(messages) - 1)

\* history_parts: one line for every user and assistant message
RECURSIVE history_parts(_)
history_parts(msgs) ==
  IF msgs = << >> THEN << >>
  ELSE LET msg == Head(msgs)
       IN (IF msg.type = "human" THEN << "User: " \o msg.content >>
           ELSE IF msg.type = "ai" THEN << "Assistant: " \o msg.content >>
           ELSE << >>) \o history_parts(Tail(msgs))

\* "\n".join(parts)
RECURSIVE Join(_)
Join(parts) ==
  IF parts = << >> THEN ""
  ELSE IF Len(parts) = 1 THEN parts[1]
  ELSE parts[1] \o "\n" \o Join(Tail(parts))

\* conversation_history of generate_search_query_node
conversation_history(messages) ==
  IF Len(messages) > 1 THEN Join(history_parts(recent_messages(messages))) ELSE ""

\* One more message joins the conversation and the optimizer's history is
\* computed for it.
HistoryOfConversation(type) ==
  /\ app.fn \in {"none", "conversation_history"}
  /\ Len(app.input) < MaxMessages
  /\ LET messages == Append(app.input,
                            [type |-> type, content |-> ContentAt(Len(app.input) + 1),
                             id |-> Len(app.input) + 1])
     IN app' = [ fn |-> "conversation_history",
                 input |-> messages,
                 parts |-> IF Len(messages) > 1
                           THEN history_parts(recent_messages(messages)) ELSE << >>,
                 output |-> conversation_history(messages) ]
  /\ UNCHANGED <<webVars, asstVars, gwVars>>

HistoryNext == \E type \in MessageTypes : HistoryOfConversation(type)

HistorySpec == Init /\ [][HistoryNext]_vars

(* ------------------------------- claims -------------------------------- *)

Last(seq) == seq[Len(seq)]

IsPrefix(a, b) == Len(a) <= Len(b) /\ \A i \in DOMAIN a : a[i] = b[i]

NodeCount(tr, n) == Cardinality({i \in DOMAIN tr : tr[i] = n})

\* the messages the current (or last) turn of t added after the user's message
Appended(t) == SubSeq(state[t].messages, turn[t].len0 + 1, Len(state[t].messages))

HasAppended(t, content) ==
  \E i \in DOMAIN Appended(t) :
    Appended(t)[i].type = "ai" /\ Appended(t)[i].content = content

\* the turn has ended through END with an assistant message as its last message
EndedWithAnswer(t) ==
  /\ turn[t].outcome = "end"
  /\ Len(Appended(t)) > 0
  /\ Last(state[t].messages).type = "ai"

\* C1: in every turn, whatever the judges answer and whichever capability
\* fails, the web acquisition node runs at most once and the web search is
\* called at most once.
C1_AtMostOneAcquisition ==
  \A t \in Threads :
    /\ turn[t].fx.web <= 1
    /\ NodeCount(turn[t].trace, "web_search_and_store") <= 1

C1_Witness ==
  \E t \in Threads :
    /\ turn[t].outcome = "end"
    /\ turn[t].fx.web = 1
    /\ turn[t].fx.acquire = "search_failed"

C3_FirstRunSearchPath ==
  \A t \in Threads :
    (turn[t].first_run /\ turn[t].decision = "needs_web_search") =>
      /\ IsPrefix(turn[t].trace,
                  << "check_first_run_search_need", "generate_search_query",
                     "web_search_and_store", "rag_response" >>)
      /\ (Len(turn[t].trace) = 1 => pc[t] = "generate_search_query")
      /\ (Len(turn[t].trace) = 2 => pc[t] = "web_search_and_store")

C3_Witness ==
  \E t \in Threads :
    /\ turn[t].first_run
    /\ turn[t].decision = "needs_web_search"
    /\ Len(turn[t].trace) = 3
    /\ pc[t] = "rag_response"

\* C4: on a first-run turn whose first-run judge asks for no web search, the
\* turn goes from CheckFirstRunNeed straight to RagResponse, which uses the
\* general-knowledge instruction; no web search is made, no search query is
\* generated and the vector store is neither written nor read.
C4_FirstRunGeneralKnowledge ==
  \A t \in Threads :
    (turn[t].first_run /\ turn[t].decision = "no_web_search") =>
      /\ IsPrefix(turn[t].trace, <<"check_first_run_search_need", "rag_response">>)
      /\ (Len(turn[t].trace) = 1 => pc[t] = "rag_response")
      /\ turn[t].fx.web = 0
      /\ turn[t].fx.query = 0
      /\ turn[t].fx.write = 0
      /\ turn[t].fx.read = 0
      /\ turn[t].fx.names = {}
      /\ turn[t].fx.prompt \in {"none", "general"}
      /\ (turn[t].outcome = "end" =>
            /\ Last(state[t].messages) =
                 [type |-> "ai", content |-> "answer from general prompt",
                  id |-> Len(state[t].messages)]
            /\ Len(Appended(t)) = 1)

C4_Witness ==
  \E t \in Threads :
    /\ turn[t].first_run
    /\ turn[t].decision = "no_web_search"
    /\ turn[t].outcome = "end"
    /\ turn[t].fx.prompt = "general"

\* C5 (as claimed): when CheckRelevance has run against a collection that is
\* empty or missing, no exception left the node, is_search_relevant is false
\* and the next node is WebAcquireAndStore.
C5_EmptyCollectionForcesAcquisition ==
  \A t \in Threads :
    ( /\ Len(turn[t].trace) > 0
      /\ Last(turn[t].trace) = "check_relevance"
      /\ turn[t].fx.probe \in {"missing", "empty"} ) =>
      /\ turn[t].outcome # "raised"
      /\ ~Get(state[t], "is_search_relevant", FALSE)
      /\ pc[t] = "web_search_and_store"

\* C6 (as claimed): no turn ends by an exception; a turn that has ended has
\* appended an assistant message.
C6_EveryTurnEndsWithMessage ==
  \A t \in Threads :
    /\ turn[t].outcome # "raised"
    /\ (turn[t].outcome = "end" => EndedWithAnswer(t))

C8_FirstRunOverAfterAnyTurn ==
  \A t \in Threads :
    (turn[t].outcome = "end" /\ pc[t] = "idle") => ~Get(state[t], "is_first_run", TRUE)

\* C9 (as claimed): once CheckRelevance has run, the next node is RagResponse
\* when is_search_relevant is true and WebAcquireAndStore otherwise.
C9_RelevanceDecidesNextNode ==
  \A t \in Threads :
    (Len(turn[t].trace) > 0 /\ Last(turn[t].trace) = "check_relevance") =>
      pc[t] = IF Get(state[t], "is_search_relevant", FALSE)
              THEN "rag_response" ELSE "web_search_and_store"

\* C10: every collection name a node computes in a thread is web_search_
\* followed by that thread's id, and different thread ids give different
\* names.
C10_CollectionNameOfThread ==
  /\ \A t \in Threads : turn[t].fx.names \subseteq {"web_search_" \o t}
  /\ \A t1, t2 \in Threads :
       get_collection_name_from_thread(Config(t1)) =
         get_collection_name_from_thread(Config(t2)) => t1 = t2

C10_Witness ==
  \E t1, t2 \in Threads :
    /\ t1 # t2
    /\ turn[t1].fx.names = {"web_search_" \o t1}
    /\ turn[t2].fx.names = {"web_search_" \o t2}

IsFirstRun(t) == Get(state[t], "is_first_run", TRUE)

HasSearchData(t) == Get(state[t], "has_search_data", FALSE)

CollectionOf(t) == get_collection_name_from_thread(Config(t))

\* thread t has just run node n: the step appended n to the turn's trace
JustRan(t, n) ==
  /\ turn[t]' # turn[t]
  /\ Len(turn[t].trace') > 0
  /\ Last(turn[t].trace') = n

\* C11: a step of one thread's turn (its start or one of its nodes) leaves the
\* state, the position and the collection of every other thread as they were,
\* whatever the interleaving.
C11_ThreadsDoNotInterfere ==
  [][\A t \in Threads :
       (turn[t]' # turn[t]) =>
         \A u \in Threads \ {t} :
           /\ state[u]' = state[u]
           /\ pc[u]' = pc[u]
           /\ turn[u]' = turn[u]
           /\ store[CollectionOf(u)]' = store[CollectionOf(u)]]_vars

C11_Witness ==
  \E t1, t2 \in Threads :
    /\ t1 # t2
    /\ pc[t1] = "rag_response"
    /\ turn[t1].fx.write = 1
    /\ pc[t2] = "web_search_and_store"
    /\ store[CollectionOf(t1)].docs > 0
    /\ ~store[CollectionOf(t2)].exists

\* C12 (as claimed): between turns, has_search_data is true exactly when the
\* thread's collection holds at least one document.
C12_HasSearchDataIffDocuments ==
  \A t \in Threads :
    pc[t] = "idle" => (HasSearchData(t) <=> store[CollectionOf(t)].docs > 0)

C14_AcquisitionThenResponse ==
  \A t \in Threads :
    /\ \A i \in DOMAIN turn[t].trace :
         (turn[t].trace[i] = "web_search_and_store" /\ i < Len(turn[t].trace)) =>
           turn[t].trace[i + 1] = "rag_response"
    /\ (Len(turn[t].trace) > 0 /\ Last(turn[t].trace) = "web_search_and_store") =>
         (pc[t] = "rag_response" /\ turn[t].outcome = "running")
    /\ turn[t].outcome \in {"end", "raised"} => Last(turn[t].trace) = "rag_response"

\* C15: when the model call of GenerateSearchQuery fails, optimized_query is
\* the user's latest message verbatim, exactly one diagnostic message is
\* appended, and the next node is the one a success leads to:
\* WebAcquireAndStore on a first run, CheckRelevance otherwise.
C15_QueryFallback ==
  \A t \in Threads :
    ( /\ Len(turn[t].trace) > 0
      /\ Last(turn[t].trace) = "generate_search_query"
      /\ turn[t].fx.qstatus = "failed" ) =>
      LET user == state[t].messages[turn[t].len0]
      IN /\ user.type = "human"
         /\ state[t].optimized_query = user.content
         /\ Len(Appended(t)) = 1
         /\ Appended(t)[1].type = "ai"
         /\ Appended(t)[1].content =
              "Query optimization failed, using original query: '" \o user.content \o "'"
         /\ turn[t].outcome = "running"
         /\ pc[t] = IF turn[t].first_run THEN "web_search_and_store" ELSE "check_relevance"

C15_Witness ==
  \E t \in Threads :
    /\ turn[t].fx.qstatus = "failed"
    /\ ~turn[t].first_run
    /\ pc[t] = "check_relevance"
    /\ state[t].optimized_query = "qb"

\* C16: when the first-run judgment fails on a first-run turn, is_search_relevant
\* is set to false and the turn goes on to GenerateSearchQuery and then to
\* WebAcquireAndStore, never straight to RagResponse.
C16_FirstRunJudgeFailureSearches ==
  \A t \in Threads :
    (turn[t].first_run /\ turn[t].decision = "error") =>
      /\ IsPrefix(turn[t].trace,
                  << "check_first_run_search_need", "generate_search_query",
                     "web_search_and_store", "rag_response" >>)
      /\ (Len(turn[t].trace) \in {1, 2} => ~Get(state[t], "is_search_relevant", FALSE))
      /\ (Len(turn[t].trace) = 1 => pc[t] = "generate_search_query")
      /\ (Len(turn[t].trace) = 2 => pc[t] = "web_search_and_store")

C16_Witness ==
  \E t \in Threads :
    /\ turn[t].first_run
    /\ turn[t].decision = "error"
    /\ Len(turn[t].trace) = 2
    /\ pc[t] = "web_search_and_store"

\* C17 (as claimed): when CheckRelevance has run on an existing collection
\* and the relevance judgment call fails, no exception leaves the node, one diagnostic message is
\* appended by it and the next node is RagResponse or WebAcquireAndStore
\* according to the fallback decision.
C17_JudgeFailureUsesHeuristic ==
  \A t \in Threads :
    ( /\ Len(turn[t].trace) > 0
      /\ Last(turn[t].trace) = "check_relevance"
      /\ turn[t].fx.probe # "missing"
      /\ turn[t].decision = "error" ) =>
      /\ turn[t].outcome # "raised"
      /\ Len(Appended(t)) > 0
      /\ Last(state[t].messages).type = "ai"
      /\ pc[t] = IF Get(state[t], "is_search_relevant", FALSE)
                 THEN "rag_response" ELSE "web_search_and_store"

\* C18: in the resume assistant, whenever the model node sees fewer than 10
\* remaining steps and the model's response requests tool calls, the message
\* added is the 'need more steps' assistant message with the response's id and
\* no tool calls, the tools node is not run and the turn ends at that step.
C18_NeedMoreStepsEndsTurn ==
  ( /\ asst.agent = "rag_assistant"
    /\ Len(asst.trace) > 0
    /\ Last(asst.trace) = "model"
    /\ asst.seen_steps < SafetyMargin
    /\ asst.requested > 0 ) =>
    /\ Last(asst.messages) =
         [type |-> "ai", id |-> asst.response_id, content |-> NeedMoreSteps, tool_calls |-> 0]
    /\ asst.response_id = Len(asst.messages)
    /\ asst.pc = "idle"
    /\ asst.outcome = "end"

C18_Witness ==
  /\ asst.agent = "rag_assistant"
  /\ asst.trace = << "model", "tools", "model" >>
  /\ asst.seen_steps < SafetyMargin
  /\ asst.requested = 2
  /\ asst.outcome = "end"

\* C19: no step of the graph deletes a collection or removes documents from
\* it: what a thread has stored stays until cleanup_temp_collection is called.
C19_NodesNeverDelete ==
  [][(state' # state \/ pc' # pc \/ turn' # turn) =>
       \A c \in CollectionNames :
         /\ store[c].docs' >= store[c].docs
         /\ (store[c].exists => store[c].exists')]_vars

C19_Witness ==
  \E t \in Threads :
    /\ turn[t].had_data
    /\ Len(turn[t].trace) >= 1
    /\ store[CollectionOf(t)].docs > 0

\* C20: web_vector_search, projects_search and resume_search only query the
\* vector store: whatever the query and the outcome, failure included, every
\* collection holds after the call what it held before it.
C20_SearchesLeaveStoreUnchanged ==
  [][\A c \in GatewayCollections : vs[c]' = vs[c]]_vars

C20_Witness ==
  /\ call.op = "projects_search"
  /\ call.result.kind = "Exception"
  /\ vs["richard-projects"].docs > 0
  /\ vs["web_search_t1"].docs > 0

\* the metadata filter the last call searched with ({} when it sent none)
FilterOf(c) ==
  IF "filter" \in DOMAIN c.search_kwargs THEN c.search_kwargs["filter"] ELSE EmptyDict

\* the filter asks for the tag, alone or as one of the alternatives of $or
HasTagPredicate(f, tag) ==
  \/ "tags" \in DOMAIN f /\ f["tags"] = ("$like" :> ("%" \o tag \o "%"))
  \/ "$or" \in DOMAIN f /\ \E i \in DOMAIN f["$or"] : f["$or"][i] = TagFilter(tag)

\* C21: the filter of a projects query has a tags-contains predicate for every
\* technology keyword that occurs in the query, whatever its case, and
\* content_type = 'readme' when the query contains 'readme'; the query
\* 'Python README' gives exactly {tags like %python%, content_type = readme};
\* and two calls with the same query text search with the same filter.
C21_ProjectsFilterFromKeywords ==
  /\ [](call.op = "projects_search" =>
         LET f == FilterOf(call)
             q == lower(call.query)
         IN /\ \A i \in DOMAIN tech_keywords :
                 Contains(tech_keywords[i].keyword, q) =>
                   HasTagPredicate(f, tech_keywords[i].tag)
            /\ Contains(<<"r", "e", "a", "d", "m", "e">>, q) =>
                 ("content_type" \in DOMAIN f /\ f["content_type"] = ("$eq" :> "readme"))
            /\ call.query = <<"P", "y", "t", "h", "o", "n", " ", "R", "E", "A", "D", "M", "E">> =>
                 f = [k \in {"tags", "content_type"} |->
                        IF k = "tags" THEN "$like" :> "%python%" ELSE "$eq" :> "readme"])
  /\ [][(call.op = "projects_search" /\ call.op' = "projects_search"
          /\ call.query' = call.query) =>
         call.search_kwargs' = call.search_kwargs]_vars

C21_Witness ==
  /\ call.op = "projects_search"
  /\ call.query = <<"P", "y", "t", "h", "o", "n", " ", "R", "E", "A", "D", "M", "E">>
  /\ DOMAIN FilterOf(call) = {"tags", "content_type"}

\* the section a filter asks for
SectionOf(f) == IF "section" \in DOMAIN f THEN f["section"]["$eq"] ELSE "none"

\* C22: the filter of a resume query has at most one section predicate, chosen
\* by first match in the order work terms, education terms, skills terms
\* (case-insensitive substrings); a query matching none has no section.
C22_ResumeSectionByFirstMatch ==
  call.op = "resume_search" =>
    LET f == FilterOf(call)
        q == lower(call.query)
    IN /\ DOMAIN f \subseteq {"section", "source"}
       /\ SectionOf(f) =
            IF ContainsAny(work_keywords, q) THEN "Work Experience"
            ELSE IF ContainsAny(education_keywords, q) THEN "Education"
            ELSE IF ContainsAny(skills_keywords, q) THEN "Skills"
            ELSE "none"

C22_Witness ==
  /\ call.op = "resume_search"
  /\ call.query = <<"s", "k", "i", "l", "l", "s", " ", "a", "n", "d", " ", "w", "o", "r", "k">>
  /\ SectionOf(FilterOf(call)) = "Work Experience"

\* C23: in each turn RagResponse runs at most once and calls the completion
\* model at most once; unless the context retrieval failed it calls it exactly
\* once, with the system instruction in front of the whole message history,
\* the web-context instruction when has_search_data is true and the
\* general-knowledge instruction otherwise.
C23_OneAnswerCall ==
  [][\A t \in Threads :
       JustRan(t, "rag_response") =>
         LET calls == turn[t].fx.model' - turn[t].fx.model
             failed == /\ turn[t].outcome' # "raised"
                       /\ Last(state[t].messages').content = "Error performing web vector search"
             prompt == IF HasSearchData(t) THEN "web" ELSE "general"
         IN /\ NodeCount(turn[t].trace, "rag_response") = 0
            /\ calls <= 1
            /\ failed => calls = 0
            /\ ~failed =>
                 /\ calls = 1
                 /\ turn[t].fx.prompt' = prompt
                 /\ turn[t].fx.sent' = << SystemMessage(prompt) >> \o state[t].messages]_vars

C23_Witness ==
  \E t \in Threads :
    /\ Len(turn[t].trace) = 4
    /\ Last(turn[t].trace) = "rag_response"
    /\ turn[t].fx.prompt = "web"
    /\ turn[t].fx.model = 3
    /\ Len(turn[t].fx.sent) = 2
    /\ turn[t].outcome = "end"

\* C24: the message list is append-only: after any node the list has the
\* previous list as a prefix and no message occurs twice, and the
\* pass-through of CheckFirstRunNeed on a non-first-run turn leaves the list
\* exactly as it was.
C24_MessagesAppendOnly ==
  [][\A t \in Threads :
       LET before == state[t].messages
           after == state[t].messages'
       IN /\ IsPrefix(before, after)
          /\ \A i, j \in DOMAIN after : after[i].id = after[j].id => i = j
          /\ (JustRan(t, "check_first_run_search_need") /\ ~IsFirstRun(t)) =>
               after = before]_vars

C24_Witness ==
  \E t \in Threads :
    /\ ~turn[t].first_run
    /\ turn[t].trace = << "check_first_run_search_need" >>
    /\ Len(state[t].messages) >= 3

\* the place of a node in the order of the graph
NodeRank(n) ==
  CASE n = "check_first_run_search_need" -> 1
    [] n = "generate_search_query" -> 2
    [] n = "check_relevance" -> 3
    [] n = "web_search_and_store" -> 4
    [] n = "rag_response" -> 5

\* the value of a state field, or "unset" when the key is absent
Field(st, k) == IF k \in DOMAIN st THEN st[k] ELSE "unset"

\* C27: on a non-first-run turn CheckFirstRunNeed calls no model and changes
\* no state field, the next node is GenerateSearchQuery whatever
\* is_search_relevant was left at, CheckRelevance follows GenerateSearchQuery,
\* and WebAcquireAndStore or RagResponse run only after CheckRelevance.
C27_LaterTurnsCheckRelevance ==
  /\ [](\A t \in Threads :
          ~turn[t].first_run =>
            /\ \A i \in DOMAIN turn[t].trace :
                 i <= 3 => turn[t].trace[i] =
                             << "check_first_run_search_need", "generate_search_query",
                                "check_relevance" >>[i]
            /\ (Len(turn[t].trace) = 1 => pc[t] = "generate_search_query")
            /\ (Len(turn[t].trace) = 2 => pc[t] \in {"check_relevance", "idle"})
            /\ (pc[t] \in {"web_search_and_store", "rag_response"} =>
                  NodeCount(turn[t].trace, "check_relevance") = 1))
  /\ [][\A t \in Threads :
          (JustRan(t, "check_first_run_search_need") /\ ~IsFirstRun(t)) =>
            /\ state[t]' = state[t]
            /\ turn[t].fx' = turn[t].fx]_vars

C27_Witness ==
  \E t \in Threads :
    /\ ~turn[t].first_run
    /\ Get(state[t], "is_search_relevant", FALSE)
    /\ turn[t].trace = << "check_first_run_search_need", "generate_search_query" >>
    /\ pc[t] = "check_relevance"

\* C28: WebAcquireAndStore updates the flags together or not at all: on
\* success is_search_relevant = true, has_search_data = true, is_first_run =
\* false and no message is appended; on a search or storage failure the three
\* flags and optimized_query stay as they were and exactly one message with
\* the error text is appended.
C28_AcquisitionFlagsTogether ==
  [][\A t \in Threads :
       JustRan(t, "web_search_and_store") =>
         IF turn[t].fx.acquire' = "ok"
         THEN /\ state[t].is_search_relevant' = TRUE
              /\ state[t].has_search_data' = TRUE
              /\ state[t].is_first_run' = FALSE
              /\ state[t].messages' = state[t].messages
         ELSE /\ \A k \in {"is_search_relevant", "has_search_data", "is_first_run",
                           "optimized_query"} :
                   Field(state[t]', k) = Field(state[t], k)
              /\ Len(state[t].messages') = Len(state[t].messages) + 1
              /\ IsPrefix(state[t].messages, state[t].messages')
              /\ Last(state[t].messages').type = "ai"
              /\ Last(state[t].messages').content =
                   (IF turn[t].fx.acquire' = "search_failed"
                    THEN "web search failed" ELSE "vector storage failed")]_vars

C28_Witness ==
  \E t \in Threads :
    /\ Len(turn[t].trace) = 3
    /\ Last(turn[t].trace) = "web_search_and_store"
    /\ turn[t].fx.acquire = "storage_failed"
    /\ Field(state[t], "has_search_data") = "unset"
    /\ Last(state[t].messages).content = "vector storage failed"

\* C29: is_first_run = true implies has_search_data = false in every state of
\* a thread, so a turn that goes from CheckFirstRunNeed straight to
\* RagResponse answers with the general-knowledge instruction and makes no
\* call on the vector store.
C29_FirstRunHasNoData ==
  \A t \in Threads :
    /\ IsFirstRun(t) => ~HasSearchData(t)
    /\ (Len(turn[t].trace) = 2 /\ turn[t].first_run /\ turn[t].trace[2] = "rag_response") =>
         /\ turn[t].fx.prompt = "general"
         /\ turn[t].fx.read = 0
         /\ turn[t].fx.write = 0
         /\ turn[t].fx.names = {}

C29_Witness ==
  \E t \in Threads :
    /\ turn[t].trace = << "check_first_run_search_need", "rag_response" >>
    /\ turn[t].first_run
    /\ Len(state[t].messages) >= 4
    /\ turn[t].outcome = "end"

\* C30: every turn terminates within five node steps: a node runs at most once
\* in a turn, the nodes run in the order CheckFirstRunNeed, GenerateSearchQuery,
\* CheckRelevance, WebAcquireAndStore, RagResponse, a turn that is not over
\* always has a node to run that has not run yet, and at most three
\* completion-model calls are made in a turn.
C30_TurnsTerminate ==
  \A t \in Threads :
    /\ Len(turn[t].trace) <= 5
    /\ \A i, j \in DOMAIN turn[t].trace :
         i < j => NodeRank(turn[t].trace[i]) < NodeRank(turn[t].trace[j])
    /\ turn[t].fx.model <= 3
    /\ pc[t] # "idle" =>
         /\ pc[t] \in Nodes
         /\ \A i \in DOMAIN turn[t].trace : NodeRank(turn[t].trace[i]) < NodeRank(pc[t])

C30_Witness ==
  \E t \in Threads :
    /\ Len(turn[t].trace) = 4
    /\ turn[t].fx.model = 3
    /\ pc[t] = "idle"
    /\ turn[t].outcome = "end"
    /\ \E u \in Threads : u # t /\ pc[u] # "idle"

\* the line a message is rendered as
Rendered(msg) ==
  (IF msg.type = "human" THEN "User: " ELSE "Assistant: ") \o msg.content

\* C25: with n messages the optimizer's history is made of the min(n-1, 5)
\* messages right before the latest one, in order and without the latest
\* itself, and of these only the user and assistant messages are rendered.
C25_HistoryWindow ==
  app.fn = "conversation_history" =>
    LET n == Len(app.input)
        k == Min(n - 1, 5)
        window == [i \in 1 .. k |-> app.input[n - k + i - 1]]
        shown == SelectSeq(window, LAMBDA m : m.type \in {"human", "ai"})
    IN /\ Len(app.parts) = Len(shown)
       /\ Len(app.parts) <= 5
       /\ \A i \in DOMAIN shown : app.parts[i] = Rendered(shown[i])
       /\ \A i \in DOMAIN app.parts : app.parts[i] # Rendered(app.input[n])
       /\ app.output = Join(app.parts)

C25_Witness ==
  /\ app.fn = "conversation_history"
  /\ Len(app.input) = 7
  /\ app.input[1].type = "human"
  /\ app.input[7].type = "human"
  /\ app.parts = << "User: m2", "Assistant: m3", "User: m5", "Assistant: m6" >>

\* the characters two chunks of one text have in common
Overlap(a, b) == Min(a.last, b.last) - b.first + 1

FirstAt(tr, n) ==
  IF \E i \in DOMAIN tr : tr[i] = n
  THEN CHOOSE i \in DOMAIN tr : tr[i] = n /\ \A j \in 1 .. (i - 1) : tr[j] # n
  ELSE 0

\* C31: whenever WebAcquireAndStore or CheckRelevance has run in a turn (or
\* is the next node to run), GenerateSearchQuery has run once, earlier in
\* that turn, and has written optimized_query: the model's query, or on
\* failure this turn's user message verbatim; the query those nodes use is
\* that value, never the built-in default.
C31_QueryWrittenBeforeUse ==
  \A t \in Threads :
    LET tr == turn[t].trace
        user == state[t].messages[turn[t].len0]
        written == IF turn[t].fx.qstatus = "ok" THEN ModelQueries ELSE {user.content}
    IN /\ pc[t] \in {"web_search_and_store", "check_relevance"} =>
            /\ FirstAt(tr, "generate_search_query") > 0
            /\ turn[t].fx.query = 1
            /\ turn[t].fx.qstatus \in {"ok", "failed"}
            /\ "optimized_query" \in DOMAIN state[t]
            /\ state[t].optimized_query \in written
       /\ \A n \in {"web_search_and_store", "check_relevance"} :
            FirstAt(tr, n) > 0 =>
              /\ FirstAt(tr, "generate_search_query") > 0
              /\ FirstAt(tr, "generate_search_query") < FirstAt(tr, n)
              /\ turn[t].fx.query = 1
              /\ turn[t].fx.searched \in written
              /\ turn[t].fx.searched = state[t].optimized_query
              /\ turn[t].fx.searched # "latest information"

C31_Witness ==
  \E t \in Threads :
    /\ turn[t].len0 > 1
    /\ Len(turn[t].trace) > 0
    /\ state[t].messages[1].content = "qa"
    /\ state[t].messages[turn[t].len0].content = "qb"
    /\ turn[t].fx.qstatus = "failed"
    /\ Last(turn[t].trace) = "check_relevance"
    /\ turn[t].fx.searched = "qb"

TagsNamed(query_lower) ==
  { tech_keywords[i].tag : i \in { j \in DOMAIN tech_keywords :
                                     Contains(tech_keywords[j].keyword, query_lower) } }

\* C34 (as claimed): the tags part of a projects filter is one tags
\* predicate when the query names exactly one technology, and an any-of of
\* one predicate per distinct technology when it names two or more; no tag
\* appears twice, also when two aliases of one tag occur in the query.
C34_OnePredicatePerTechnology ==
  app.fn = "projects_search" =>
    LET f == app.filter
        tags == TagsNamed(lower(app.query))
    IN /\ Cardinality(tags) = 0 => ("tags" \notin DOMAIN f /\ "$or" \notin DOMAIN f)
       /\ Cardinality(tags) = 1 =>
            /\ "$or" \notin DOMAIN f
            /\ "tags" \in DOMAIN f
            /\ \A tag \in tags : f["tags"] = ("$like" :> ("%" \o tag \o "%"))
       /\ Cardinality(tags) >= 2 =>
            /\ "tags" \notin DOMAIN f
            /\ "$or" \in DOMAIN f
            /\ Len(f["$or"]) = Cardinality(tags)
            /\ \A tag \in tags : \E i \in DOMAIN f["$or"] : f["$or"][i] = TagFilter(tag)
            /\ \A i, j \in DOMAIN f["$or"] : i # j => f["$or"][i] # f["$or"][j]

\* the value a filter holds under a key ("none" when the key is absent)
PredicateOf(f, key) == IF key \in DOMAIN f THEN f[key] ELSE "none"

\* C35: the filter holds at most one content_type and one source predicate,
\* by fixed precedence: for projects readme / documentation / detailed win
\* over description / summary / overview, for resume 'pdf' wins over 'web';
\* a query without any keyword, or an unknown collection type, gives the
\* empty filter, and a search with an empty filter runs with k = 5 and no
\* filter.
C35_PrecedenceAndEmptyFilter ==
  app.fn \in {"projects_search", "resume_search", "build_keyword_filter"} =>
    LET f == app.filter
        q == lower(app.query)
        kw == app.search_kwargs
    IN /\ app.collection_type = "projects" =>
            /\ DOMAIN f \subseteq {"tags", "$or", "content_type"}
            /\ PredicateOf(f, "content_type") =
                 IF ContainsAny(content_readme_keywords, q) THEN "$eq" :> "readme"
                 ELSE IF ContainsAny(content_description_keywords, q)
                 THEN "$eq" :> "description"
                 ELSE "none"
            /\ ( /\ TagsNamed(q) = {}
                 /\ ~ContainsAny(content_readme_keywords, q)
                 /\ ~ContainsAny(content_description_keywords, q) ) => f = EmptyDict
       /\ app.collection_type = "resume" =>
            /\ DOMAIN f \subseteq {"section", "source"}
            /\ PredicateOf(f, "source") =
                 IF Contains(<<"p", "d", "f">>, q) THEN "$like" :> "%drive.google.com%"
                 ELSE IF ContainsAny(source_web_keywords, q)
                 THEN "$like" :> "%richardr.dev%"
                 ELSE "none"
            /\ ( /\ ~ContainsAny(work_keywords \cup education_keywords \cup skills_keywords, q)
                 /\ ~Contains(<<"p", "d", "f">>, q)
                 /\ ~ContainsAny(source_web_keywords, q) ) => f = EmptyDict
       /\ app.collection_type \notin {"projects", "resume"} => f = EmptyDict
       /\ app.fn \in {"projects_search", "resume_search"} =>
            /\ kw["k"] = 5
            /\ DOMAIN kw \subseteq {"k", "filter"}
            /\ f = EmptyDict <=> DOMAIN kw = {"k"}
            /\ f # EmptyDict => kw["filter"] = f

C35_Witness ==
  /\ app.fn = "resume_search"
  /\ app.query = <<"w", "e", "b", " ", "p", "d", "f">>
  /\ app.filter = ("source" :> ("$like" :> "%drive.google.com%"))
  /\ app.search_kwargs["k"] = 5

====
